---- MODULE Spec2Model ----
(***************************************************************************)
(* Camera discovery and selection (src/src/camera_utils.py) and the probe  *)
(* of src/test_all_cameras.py, as one single-threaded program with a call  *)
(* stack.  Every call into cv2 (VideoCapture(i), cap.read(), cap.get())    *)
(* answers nondeterministically at the moment of the call: a device may    *)
(* appear, vanish or stop delivering frames between any two calls.         *)
(***************************************************************************)
EXTENDS Integers, Sequences, FiniteSets, TLC

\* Largest device index a caller passes explicitly (open_camera, get_camera_info, test_camera).
MaxIndex == 5
\* Largest scan bound a caller passes to get_available_cameras directly.
MaxBound == 5
\* Frames a preview loop shows before the operator presses a key.
MaxFrames == 2
\* def get_available_cameras(max_test: int = 5)
DefaultMaxTest == 5
\* test_all_cameras.py: for i in range(6)
TestRange == 6
\* identify_usb_camera.py: cap0 = cv2.VideoCapture(0)
Cam0 == 0
\* identify_usb_camera.py: cap1 = cv2.VideoCapture(2)
Cam1 == 2

VARIABLES
    pc,      \* control point of the running function
    stack,   \* return labels of the callers, innermost first
    op,      \* the function the caller invoked ("none" when idle)
    caps,    \* the cv2.VideoCapture object each function's local `cap` refers to
    gac,     \* locals of get_available_cameras
    gci,     \* locals of get_camera_info; history: opened, what cap.isOpened() answered
    sbc,     \* locals of select_best_camera
    oc,      \* locals of open_camera; history: arg, the camera_index as passed; attempt, what the
             \* open attempt reported; scansAtOpen, the enumerations started before that attempt
    lci,     \* locals of list_cameras_interactive; history: cancelled, the operator's interrupt arrived
    tc,      \* locals of test_camera; printed, the line it wrote
    ret,     \* value returned by the function that returned last
    exc,     \* exception propagating to the caller
    log,     \* history: outcome of each probe of the enumeration that ran last
    nscans,  \* history: enumerations started since the caller's invocation
    tam,     \* locals of main of test_all_cameras.py
    ium      \* locals of main of identify_usb_camera.py

vars == <<pc, stack, op, caps, gac, gci, sbc, oc, lci, tc, ret, exc, log, nscans, tam, ium>>

----------------------------------------------------------------------------
\* Values

\* Optional[int] = None
None == 0 - 1

\* A cv2.VideoCapture object: the index it was created on, whether it holds the
\* device, and how many frames were read from it.
NoCap == [index |-> None, opened |-> FALSE, reads |-> 0]

\* cv2.VideoCapture(index): the OS grants the device (ok) or not.
VideoCapture(index, ok) == [index |-> index, opened |-> ok, reads |-> 0]

\* cap.isOpened()
isOpened(cap) == cap.opened

\* cap.release(): gives the device back; a released or never opened object is left as it is.
release(cap) == [cap EXCEPT !.opened = FALSE]

\* cap.read(): the object after one read attempt.
read(cap) == [cap EXCEPT !.reads = @ + 1]

\* (width, height, backend) as cap.get / cap.getBackendName report them.
Infos == { <<640, 480, "V4L2">>, <<0, 0, "">> }

Slots == {"gac", "gci", "oc", "tc", "tam", "cap0", "cap1"}

----------------------------------------------------------------------------
\* Operator input: a line typed at the prompt, as the sequence of the code
\* points (ord) of its characters: "2" is <<50>>, "0_2" is <<48, 95, 50>>.

\* The ASCII digits '0'..'9'.
Digits == <<48, 49, 50, 51, 52, 53, 54, 55, 56, 57>>

\* The characters str.strip() removes, those str.isspace() accepts:
\* \t \n \v \f \r, \x1c-\x1f, space, \x85, \xa0 and the Unicode spaces and
\* line/paragraph separators.
Whitespace ==
    {9, 10, 11, 12, 13, 28, 29, 30, 31, 32, 133, 160, 5760}
    \cup (8192..8202) \cup {8232, 8233, 8239, 8287, 12288}

\* The characters int() skips around a literal: the same but for \x1c-\x1f.
IntWhitespace == Whitespace \ (28..31)

\* The zero of every decimal digit script int() reads (Unicode category Nd);
\* the nine code points after a zero are that script's 1..9.
DecimalZeros ==
    { 48, 1632, 1776, 1984, 2406, 2534, 2662, 2790, 2918, 3046,
      3174, 3302, 3430, 3558, 3664, 3792, 3872, 4160, 4240, 6112,
      6160, 6470, 6608, 6784, 6800, 6992, 7088, 7232, 7248, 42528,
      43216, 43264, 43472, 43504, 43600, 44016, 65296, 66720, 68912, 69734,
      69872, 69942, 70096, 70384, 70736, 70864, 71248, 71360, 71472, 71904,
      72016, 72784, 73040, 73120, 92768, 92864, 93008, 120782, 120792, 120802,
      120812, 120822, 123200, 123632, 125264, 130032 }

\* `choice` before the first input() returned (no code point is negative).
Unset == <<0 - 1>>

IsDigit(c) == \E z \in DecimalZeros : c \in z..(z + 9)
DigitValue(c) == c - (CHOOSE z \in DecimalZeros : c \in z..(z + 9))

RECURSIVE DropLeading(_, _)
DropLeading(s, chars) == IF s # <<>> /\ Head(s) \in chars THEN DropLeading(Tail(s), chars) ELSE s

RECURSIVE DropTrailing(_, _)
DropTrailing(s, chars) ==
    IF s # <<>> /\ s[Len(s)] \in chars THEN DropTrailing(SubSeq(s, 1, Len(s) - 1), chars) ELSE s

lstrip(s) == DropLeading(s, Whitespace)

rstrip(s) == DropTrailing(s, Whitespace)

\* str.strip()
strip(s) == rstrip(lstrip(s))

\* What int() parses: the argument without the whitespace around it.
Literal(s) == DropTrailing(DropLeading(s, IntWhitespace), IntWhitespace)

\* The literal without its sign ('+' is 43, '-' is 45).
Unsigned(s) == LET l == Literal(s) IN IF l # <<>> /\ Head(l) \in {43, 45} THEN Tail(l) ELSE l

\* sys.get_int_max_str_digits(): the most digits int() converts.
MaxStrDigits == 4300

\* int(choice) raises ValueError unless choice is, inside optional whitespace,
\* an optionally signed run of decimal digits in which single underscores (95)
\* may stand between two digits, of at most MaxStrDigits digits.
IsInt(s) ==
    LET u == Unsigned(s) IN
    /\ u # <<>>
    /\ Cardinality({k \in 1..Len(u) : u[k] # 95}) <= MaxStrDigits
    /\ \A k \in 1..Len(u) :
          \/ IsDigit(u[k])
          \/ /\ u[k] = 95
             /\ k > 1 /\ k < Len(u)
             /\ IsDigit(u[k - 1]) /\ IsDigit(u[k + 1])

\* The value of a run of digits, underscores skipped.
RECURSIVE Magnitude(_)
Magnitude(s) == IF s = <<>> THEN 0
                ELSE IF s[Len(s)] = 95 THEN Magnitude(SubSeq(s, 1, Len(s) - 1))
                ELSE Magnitude(SubSeq(s, 1, Len(s) - 1)) * Len(Digits) + DigitValue(s[Len(s)])

\* int(choice)
int(s) == IF Head(Literal(s)) = 45 THEN 0 - Magnitude(Unsigned(s)) ELSE Magnitude(Unsigned(s))

\* idx in available
Contains(available, idx) == \E k \in 1..Len(available) : available[k] = idx

\* The lines the operator may type:
\* "", " ", "x", "-1", "02", " 2 ", "1x", "2\r", "\r", "\n2", "\x1c2",
\* "0_2", "_2", "1__0", "+2", ARABIC-INDIC DIGIT TWO, and "0".."5".
Inputs ==
    { <<>>, <<32>>, <<120>>, <<45, 49>>, <<48, 50>>, <<32, 50, 32>>, <<49, 120>>,
      <<50, 13>>, <<13>>, <<10, 50>>, <<28, 50>>,
      <<48, 95, 50>>, <<95, 50>>, <<49, 95, 95, 48>>, <<43, 50>>, <<1634>> }
    \cup { <<Digits[n + 1]>> : n \in 0..MaxIndex }


RetNone       == [kind |-> "None",  val |-> None]
RetInt(n)     == [kind |-> "int",   val |-> n]
RetList(l)    == [kind |-> "list",  val |-> l]
RetBool(b)    == [kind |-> "bool",  val |-> b]
RetInfo(t)    == [kind |-> "tuple", val |-> t]
RetCap(slot)  == [kind |-> "cap",   val |-> slot]
RetStr(str)   == [kind |-> "str",   val |-> str]

\* cv2.waitKey(1) & 0xFF: no key pressed, 'q', or another key.
Keys == {"none", "q", "other"}
\* The keys the operator may press after `frames` frames were shown.
KeysAfter(frames) == IF frames < MaxFrames THEN Keys ELSE Keys \ {"none"}

NoExc == [type |-> "None", msg |-> "", index |-> None, available |-> <<>>]
\* RuntimeError("No cameras detected! Please connect a camera and try again.")
NoCamerasError == [type |-> "RuntimeError", msg |-> "No cameras detected! Please connect a camera and try again.",
                   index |-> None, available |-> <<>>]
\* RuntimeError("No cameras detected!")
NoCamerasInteractiveError == [type |-> "RuntimeError", msg |-> "No cameras detected!",
                              index |-> None, available |-> <<>>]
\* RuntimeError(f"Failed to open camera {camera_index}. Available cameras: {get_available_cameras()}")
FailedToOpenError(camera_index, available) ==
    [type |-> "RuntimeError", msg |-> "Failed to open camera", index |-> camera_index, available |-> available]
\* `key` is read at `if key == ord('q')` before any waitKey assigned it.
UnboundLocalError == [type |-> "UnboundLocalError", msg |-> "key", index |-> None, available |-> <<>>]
KeyboardInterrupt == [type |-> "KeyboardInterrupt", msg |-> "", index |-> None, available |-> <<>>]

\* Number of open VideoCapture objects on device index i.
Held(i) == Cardinality({s \in Slots : caps[s].opened /\ caps[s].index = i})

InitGac == [max_test |-> 0, i |-> 0, available |-> <<>>]
InitGci == [index |-> None, opened |-> FALSE]
InitSbc == [prefer_external |-> TRUE, available |-> <<>>]
InitOc  == [camera_index |-> None, prefer_external |-> TRUE, arg |-> None,
            attempt |-> "none", scansAtOpen |-> None]
InitLci == [available |-> <<>>, k |-> 0, choice |-> Unset, cancelled |-> FALSE]
InitTc  == [index |-> None, result |-> FALSE, printed |-> ""]
InitTam == [i |-> 0, available_cameras |-> <<>>, k |-> 0, key |-> "unbound"]
InitIum == [ret0 |-> FALSE, ret1 |-> FALSE, choice |-> Unset]

Init ==
    /\ pc = "idle"
    /\ stack = <<>>
    /\ op = "none"
    /\ caps = [s \in Slots |-> NoCap]
    /\ gac = InitGac
    /\ gci = InitGci
    /\ sbc = InitSbc
    /\ oc = InitOc
    /\ lci = InitLci
    /\ tc = InitTc
    /\ ret = RetNone
    /\ exc = NoExc
    /\ log = <<>>
    /\ nscans = 0
    /\ tam = InitTam
    /\ ium = InitIum

----------------------------------------------------------------------------
\* Control transfer

\* `return v`: back to the caller's continuation, or to the outside caller.
Return(v) ==
    /\ ret' = v
    /\ pc' = IF stack = <<>> THEN "done" ELSE Head(stack)
    /\ stack' = IF stack = <<>> THEN <<>> ELSE Tail(stack)

\* `raise e`: no function of the module catches RuntimeError, and the one handler of
\* KeyboardInterrupt re-raises, so the exception unwinds every frame.
Raise(e) ==
    /\ exc' = e
    /\ pc' = "done"
    /\ stack' = <<>>

\* get_available_cameras(max_test) called; control continues at `after` on return.
CallGac(max_test, after) ==
    /\ gac' = [max_test |-> max_test, i |-> 0, available |-> <<>>]
    /\ log' = <<>>
    /\ nscans' = nscans + 1
    /\ pc' = "gac_for"
    /\ stack' = after \o stack

\* get_camera_info(index) called.
CallGci(index, after) ==
    /\ gci' = [index |-> index, opened |-> FALSE]
    /\ pc' = "gci_open"
    /\ stack' = after \o stack

\* test_camera(index) called.
CallTc(index, after) ==
    /\ tc' = [index |-> index, result |-> FALSE, printed |-> ""]
    /\ pc' = "tc_open"
    /\ stack' = after \o stack

\* select_best_camera(prefer_external) called.
CallSbc(prefer_external, after) ==
    /\ sbc' = [prefer_external |-> prefer_external, available |-> <<>>]
    /\ pc' = "sbc_start"
    /\ stack' = after \o stack

----------------------------------------------------------------------------
\* get_available_cameras

\* Variant of gac_for: the loop runs one index too far (range(max_test + 1)).
gac_for_off_by_one ==
    /\ pc = "gac_for"
    /\ gac.i <= gac.max_test
    /\ \E ok \in BOOLEAN :
         LET cap == VideoCapture(gac.i, ok) IN
         /\ caps' = [caps EXCEPT !["gac"] = cap]
         /\ IF isOpened(cap)
               THEN /\ pc' = "gac_read"
                    /\ UNCHANGED <<gac, log>>
               ELSE /\ pc' = "gac_for"
                    /\ gac' = [gac EXCEPT !.i = @ + 1]
                    /\ log' = Append(log, [index |-> gac.i, result |-> "Unavailable"])
    /\ UNCHANGED <<stack, op, gci, sbc, oc, lci, tc, ret, exc, nscans, tam, ium>>

\* Variant of gac_for: an index that does not open makes the loop skip the one after it.
gac_for_skips ==
    /\ pc = "gac_for"
    /\ gac.i < gac.max_test
    /\ \E ok \in BOOLEAN :
         LET cap == VideoCapture(gac.i, ok) IN
         /\ caps' = [caps EXCEPT !["gac"] = cap]
         /\ IF isOpened(cap)
               THEN /\ pc' = "gac_read"
                    /\ UNCHANGED <<gac, log>>
               ELSE /\ pc' = "gac_for"
                    /\ gac' = [gac EXCEPT !.i = @ + 2]
                    /\ log' = Append(log, [index |-> gac.i, result |-> "Unavailable"])
    /\ UNCHANGED <<stack, op, gci, sbc, oc, lci, tc, ret, exc, nscans, tam, ium>>

\* for i in range(max_test): cap = cv2.VideoCapture(i); if cap.isOpened(): ... (not opened: next i)
gac_for ==
    /\ pc = "gac_for"
    /\ gac.i < gac.max_test
    /\ \E ok \in BOOLEAN :
         LET cap == VideoCapture(gac.i, ok) IN
         /\ caps' = [caps EXCEPT !["gac"] = cap]
         /\ IF isOpened(cap)
               THEN /\ pc' = "gac_read"
                    /\ UNCHANGED <<gac, log>>
               ELSE /\ pc' = "gac_for"
                    /\ gac' = [gac EXCEPT !.i = @ + 1]
                    /\ log' = Append(log, [index |-> gac.i, result |-> "Unavailable"])
    /\ UNCHANGED <<stack, op, gci, sbc, oc, lci, tc, ret, exc, nscans, tam, ium>>

\* Variant of gac_read: the index is collected whether or not the read delivered a frame.
gac_read_unchecked ==
    /\ pc = "gac_read"
    /\ \E r \in BOOLEAN :
         /\ caps' = [caps EXCEPT !["gac"] = read(@)]
         /\ gac' = [gac EXCEPT !.available = Append(@, gac.i)]
         /\ log' = Append(log, [index |-> gac.i,
                                result |-> IF r THEN "Working" ELSE "OpensButNoFrame"])
    /\ pc' = "gac_release"
    /\ UNCHANGED <<stack, op, gci, sbc, oc, lci, tc, ret, exc, nscans, tam, ium>>

\* ret, _ = cap.read(); if ret: available.append(i)
gac_read ==
    /\ pc = "gac_read"
    /\ \E r \in BOOLEAN :
         /\ caps' = [caps EXCEPT !["gac"] = read(@)]
         /\ gac' = [gac EXCEPT !.available = IF r THEN Append(@, gac.i) ELSE @]
         /\ log' = Append(log, [index |-> gac.i,
                                result |-> IF r THEN "Working" ELSE "OpensButNoFrame"])
    /\ pc' = "gac_release"
    /\ UNCHANGED <<stack, op, gci, sbc, oc, lci, tc, ret, exc, nscans, tam, ium>>

\* Variant of gac_release: cap.release() sits under `if ret:`.
gac_release_if_ret ==
    /\ pc = "gac_release"
    /\ caps' = [caps EXCEPT !["gac"] = IF log[Len(log)].result = "Working" THEN release(@) ELSE @]
    /\ gac' = [gac EXCEPT !.i = @ + 1]
    /\ pc' = "gac_for"
    /\ UNCHANGED <<stack, op, gci, sbc, oc, lci, tc, ret, exc, log, nscans, tam, ium>>

\* ret, _ = cap.read() where the device never answers: the call does not return, and
\* nothing in the function bounds the wait.
gac_read_blocks ==
    /\ pc = "gac_read"
    /\ pc' = "gac_blocked"
    /\ UNCHANGED <<stack, op, caps, gac, gci, sbc, oc, lci, tc, ret, exc, log, nscans, tam, ium>>

\* cap.release(), then the next i
gac_release ==
    /\ pc = "gac_release"
    /\ caps' = [caps EXCEPT !["gac"] = release(@)]
    /\ gac' = [gac EXCEPT !.i = @ + 1]
    /\ pc' = "gac_for"
    /\ UNCHANGED <<stack, op, gci, sbc, oc, lci, tc, ret, exc, log, nscans, tam, ium>>

\* return available
gac_return ==
    /\ pc = "gac_for"
    /\ gac.i >= gac.max_test
    /\ Return(RetList(gac.available))
    /\ UNCHANGED <<op, caps, gac, gci, sbc, oc, lci, tc, exc, log, nscans, tam, ium>>

----------------------------------------------------------------------------
\* get_camera_info

\* cap = cv2.VideoCapture(index); if not cap.isOpened(): return None
gci_open ==
    /\ pc = "gci_open"
    /\ \E ok \in BOOLEAN :
         LET cap == VideoCapture(gci.index, ok) IN
         /\ caps' = [caps EXCEPT !["gci"] = cap]
         /\ gci' = [gci EXCEPT !.opened = isOpened(cap)]
         /\ IF ~isOpened(cap)
               THEN Return(RetNone)
               ELSE pc' = "gci_get" /\ UNCHANGED <<stack, ret>>
    /\ UNCHANGED <<op, gac, sbc, oc, lci, tc, exc, log, nscans, tam, ium>>

\* Variant of gci_get: a first frame is read and nothing is reported when the read fails.
gci_get_first_frame ==
    /\ pc = "gci_get"
    /\ \E info \in Infos, r \in BOOLEAN : Return(IF r THEN RetInfo(info) ELSE RetNone)
    /\ caps' = [caps EXCEPT !["gci"] = release(read(@))]
    /\ UNCHANGED <<op, gac, gci, sbc, oc, lci, tc, exc, log, nscans, tam, ium>>

\* width, height, backend = ...; cap.release(); return (width, height, backend)
gci_get ==
    /\ pc = "gci_get"
    /\ \E info \in Infos : Return(RetInfo(info))
    /\ caps' = [caps EXCEPT !["gci"] = release(@)]
    /\ UNCHANGED <<op, gac, gci, sbc, oc, lci, tc, exc, log, nscans, tam, ium>>

----------------------------------------------------------------------------
\* test_camera (src/test_all_cameras.py)

\* cap = cv2.VideoCapture(index); if cap.isOpened(): ... else: return False
tc_open ==
    /\ pc = "tc_open"
    /\ \E ok \in BOOLEAN :
         LET cap == VideoCapture(tc.index, ok) IN
         /\ caps' = [caps EXCEPT !["tc"] = cap]
         /\ IF isOpened(cap)
               THEN pc' = "tc_read" /\ UNCHANGED <<stack, ret, tc, log>>
               ELSE /\ tc' = [tc EXCEPT !.printed = "Not available"]
                    /\ log' = Append(log, [index |-> tc.index, result |-> "Unavailable"])
                    /\ Return(RetBool(FALSE))
    /\ UNCHANGED <<op, gac, gci, sbc, oc, lci, exc, nscans, tam, ium>>

\* ret, frame = cap.read(); if ret: print("Working - Resolution ...") else: print("Opened but can't read frames")
tc_read ==
    /\ pc = "tc_read"
    /\ \E r \in BOOLEAN :
         /\ tc' = [tc EXCEPT !.result = r,
                             !.printed = IF r THEN "Working" ELSE "Opened but can't read frames"]
         /\ log' = Append(log, [index |-> tc.index,
                                result |-> IF r THEN "Working" ELSE "OpensButNoFrame"])
    /\ caps' = [caps EXCEPT !["tc"] = read(@)]
    /\ pc' = "tc_release"
    /\ UNCHANGED <<stack, op, gac, gci, sbc, oc, lci, ret, exc, nscans, tam, ium>>

\* ret, frame = cap.read() where the device never answers: the call does not return.
tc_read_blocks ==
    /\ pc = "tc_read"
    /\ pc' = "tc_blocked"
    /\ UNCHANGED <<stack, op, caps, gac, gci, sbc, oc, lci, tc, ret, exc, log, nscans, tam, ium>>

\* cap.release(); return True   /   cap.release(); return False
tc_release ==
    /\ pc = "tc_release"
    /\ caps' = [caps EXCEPT !["tc"] = release(@)]
    /\ Return(RetBool(tc.result))
    /\ UNCHANGED <<op, gac, gci, sbc, oc, lci, tc, exc, log, nscans, tam, ium>>


----------------------------------------------------------------------------
\* select_best_camera

\* Variant of select_index: the first entry whatever the preference.
select_index_first(available, prefer_external) == available[1]

\* The index chosen from a non-empty list: the only entry, else the last entry
\* (prefer_external) or the first.
select_index(available, prefer_external) ==
    IF Len(available) = 1 THEN available[1]
    ELSE IF prefer_external THEN available[Len(available)]
    ELSE available[1]

\* available = get_available_cameras()
sbc_start ==
    /\ pc = "sbc_start"
    /\ CallGac(DefaultMaxTest, <<"sbc_got">>)
    /\ UNCHANGED <<op, caps, gci, sbc, oc, lci, tc, ret, exc, tam, ium>>

\* Variant of sbc_raise: an empty list falls back to index 0 instead of raising.
sbc_raise_default ==
    /\ pc = "sbc_got"
    /\ ret.val = <<>>
    /\ sbc' = [sbc EXCEPT !.available = ret.val]
    /\ Return(RetInt(0))
    /\ UNCHANGED <<op, caps, gac, gci, oc, lci, tc, exc, log, nscans, tam, ium>>

\* if not available: raise RuntimeError(...)
sbc_raise ==
    /\ pc = "sbc_got"
    /\ ret.val = <<>>
    /\ sbc' = [sbc EXCEPT !.available = ret.val]
    /\ Raise(NoCamerasError)
    /\ UNCHANGED <<op, caps, gac, gci, oc, lci, tc, ret, log, nscans, tam, ium>>

\* return camera_idx
sbc_return ==
    /\ pc = "sbc_got"
    /\ ret.val # <<>>
    /\ sbc' = [sbc EXCEPT !.available = ret.val]
    /\ Return(RetInt(select_index(ret.val, sbc.prefer_external)))
    /\ UNCHANGED <<op, caps, gac, gci, oc, lci, tc, exc, log, nscans, tam, ium>>

----------------------------------------------------------------------------
\* open_camera

\* Variant of oc_start: the enumerator runs before an explicit index is tried.
oc_start_enumerates ==
    /\ pc = "oc_start"
    /\ IF oc.camera_index = None
          THEN CallSbc(oc.prefer_external, <<"oc_selected">>) /\ UNCHANGED <<gac, log, nscans>>
          ELSE CallGac(DefaultMaxTest, <<"oc_open">>) /\ UNCHANGED sbc
    /\ UNCHANGED <<op, caps, gci, oc, lci, tc, ret, exc, tam, ium>>

\* Variant of oc_start: an explicit index outside the scan range is rejected.
oc_start_membership ==
    /\ pc = "oc_start"
    /\ IF oc.camera_index = None
          THEN CallSbc(oc.prefer_external, <<"oc_selected">>) /\ UNCHANGED exc
          ELSE IF oc.camera_index >= DefaultMaxTest
                  THEN Raise([type |-> "RequestedDeviceNotFound", msg |-> "",
                              index |-> oc.camera_index, available |-> <<>>]) /\ UNCHANGED sbc
                  ELSE pc' = "oc_open" /\ UNCHANGED <<stack, sbc, exc>>
    /\ UNCHANGED <<op, caps, gac, gci, oc, lci, tc, ret, log, nscans, tam, ium>>

\* if camera_index is None: camera_index = select_best_camera(prefer_external=prefer_external)
oc_start ==
    /\ pc = "oc_start"
    /\ IF oc.camera_index = None
          THEN CallSbc(oc.prefer_external, <<"oc_selected">>)
          ELSE pc' = "oc_open" /\ UNCHANGED <<stack, sbc>>
    /\ UNCHANGED <<op, caps, gac, gci, oc, lci, tc, ret, exc, log, nscans, tam, ium>>

\* camera_index = <the value select_best_camera returned>
oc_selected ==
    /\ pc = "oc_selected"
    /\ oc' = [oc EXCEPT !.camera_index = ret.val]
    /\ pc' = "oc_open"
    /\ UNCHANGED <<stack, op, caps, gac, gci, sbc, lci, tc, ret, exc, log, nscans, tam, ium>>

\* Variant of oc_open: a first frame is read and a failed read counts as a failed open.
oc_open_first_frame ==
    /\ pc = "oc_open"
    /\ \E ok \in BOOLEAN, r \in BOOLEAN :
         LET cap == VideoCapture(oc.camera_index, ok) IN
         /\ caps' = [caps EXCEPT !["oc"] = IF isOpened(cap) THEN read(cap) ELSE cap]
         /\ oc' = [oc EXCEPT !.attempt = IF isOpened(cap) THEN "opened" ELSE "failed",
                             !.scansAtOpen = nscans]
         /\ pc' = IF isOpened(cap) /\ r THEN "oc_info" ELSE "oc_failed"
    /\ UNCHANGED <<stack, op, gac, gci, sbc, lci, tc, ret, exc, log, nscans, tam, ium>>

\* cap = cv2.VideoCapture(camera_index); if not cap.isOpened(): ...
oc_open ==
    /\ pc = "oc_open"
    /\ \E ok \in BOOLEAN :
         LET cap == VideoCapture(oc.camera_index, ok) IN
         /\ caps' = [caps EXCEPT !["oc"] = cap]
         /\ oc' = [oc EXCEPT !.attempt = IF isOpened(cap) THEN "opened" ELSE "failed",
                             !.scansAtOpen = nscans]
         /\ pc' = IF isOpened(cap) THEN "oc_info" ELSE "oc_failed"
    /\ UNCHANGED <<stack, op, gac, gci, sbc, lci, tc, ret, exc, log, nscans, tam, ium>>

\* Variant of oc_failed: the error reuses the list the selection saw instead of scanning again.
oc_failed_stale ==
    /\ pc = "oc_failed"
    /\ Raise(FailedToOpenError(oc.camera_index, sbc.available))
    /\ UNCHANGED <<op, caps, gac, gci, sbc, oc, lci, tc, ret, log, nscans, tam, ium>>

\* ... get_available_cameras() inside the error message
oc_failed ==
    /\ pc = "oc_failed"
    /\ CallGac(DefaultMaxTest, <<"oc_raise">>)
    /\ UNCHANGED <<op, caps, gci, sbc, oc, lci, tc, ret, exc, tam, ium>>

\* raise RuntimeError(f"Failed to open camera {camera_index}. Available cameras: {...}")
oc_raise ==
    /\ pc = "oc_raise"
    /\ Raise(FailedToOpenError(oc.camera_index, ret.val))
    /\ UNCHANGED <<op, caps, gac, gci, sbc, oc, lci, tc, ret, log, nscans, tam, ium>>

\* info = get_camera_info(camera_index)
oc_info ==
    /\ pc = "oc_info"
    /\ CallGci(oc.camera_index, <<"oc_return">>)
    /\ UNCHANGED <<op, caps, gac, sbc, oc, lci, tc, ret, exc, log, nscans, tam, ium>>

\* if info: print(...); return cap
oc_return ==
    /\ pc = "oc_return"
    /\ Return(RetCap("oc"))
    /\ UNCHANGED <<op, caps, gac, gci, sbc, oc, lci, tc, exc, log, nscans, tam, ium>>

----------------------------------------------------------------------------
\* list_cameras_interactive

\* available = get_available_cameras()
lci_start ==
    /\ pc = "lci_start"
    /\ CallGac(DefaultMaxTest, <<"lci_got">>)
    /\ UNCHANGED <<op, caps, gci, sbc, oc, lci, tc, ret, exc, tam, ium>>

\* if not available: raise RuntimeError("No cameras detected!")
lci_raise ==
    /\ pc = "lci_got"
    /\ ret.val = <<>>
    /\ lci' = [lci EXCEPT !.available = ret.val]
    /\ Raise(NoCamerasInteractiveError)
    /\ UNCHANGED <<op, caps, gac, gci, sbc, oc, tc, ret, log, nscans, tam, ium>>

\* the listing starts: for idx in available
lci_list ==
    /\ pc = "lci_got"
    /\ ret.val # <<>>
    /\ lci' = [lci EXCEPT !.available = ret.val, !.k = 1]
    /\ pc' = "lci_for"
    /\ UNCHANGED <<stack, op, caps, gac, gci, sbc, oc, tc, ret, exc, log, nscans, tam, ium>>

\* info = get_camera_info(idx)
lci_for ==
    /\ pc = "lci_for"
    /\ lci.k <= Len(lci.available)
    /\ CallGci(lci.available[lci.k], <<"lci_print">>)
    /\ UNCHANGED <<op, caps, gac, sbc, oc, lci, tc, ret, exc, log, nscans, tam, ium>>

\* if info: print(f"  Camera {idx}: ...") else: print(f"  Camera {idx}: Available")
lci_print ==
    /\ pc = "lci_print"
    /\ lci' = [lci EXCEPT !.k = @ + 1]
    /\ pc' = "lci_for"
    /\ UNCHANGED <<stack, op, caps, gac, gci, sbc, oc, tc, ret, exc, log, nscans, tam, ium>>

\* Variant of lci_only: a single camera is put to the operator like any other list.
lci_only_prompts ==
    /\ pc = "lci_for"
    /\ lci.k > Len(lci.available)
    /\ Len(lci.available) = 1
    /\ pc' = "lci_input"
    /\ UNCHANGED <<stack, op, caps, gac, gci, sbc, oc, lci, tc, ret, exc, log, nscans, tam, ium>>

\* if len(available) == 1: return available[0]
lci_only ==
    /\ pc = "lci_for"
    /\ lci.k > Len(lci.available)
    /\ Len(lci.available) = 1
    /\ Return(RetInt(lci.available[1]))
    /\ UNCHANGED <<op, caps, gac, gci, sbc, oc, lci, tc, exc, log, nscans, tam, ium>>

\* while True: (the first prompt)
lci_while ==
    /\ pc = "lci_for"
    /\ lci.k > Len(lci.available)
    /\ Len(lci.available) # 1
    /\ pc' = "lci_input"
    /\ UNCHANGED <<stack, op, caps, gac, gci, sbc, oc, lci, tc, ret, exc, log, nscans, tam, ium>>

\* choice = input(...).strip(); if not choice: return select_best_camera(prefer_external=True)
lci_input_auto ==
    /\ pc = "lci_input"
    /\ \E line \in Inputs : LET choice == strip(line) IN
         /\ choice = <<>>
         /\ lci' = [lci EXCEPT !.choice = choice]
    /\ CallSbc(TRUE, <<"lci_auto">>)
    /\ UNCHANGED <<op, caps, gac, gci, oc, tc, ret, exc, log, nscans, tam, ium>>

\* return <the value select_best_camera returned>
lci_auto ==
    /\ pc = "lci_auto"
    /\ Return(ret)
    /\ UNCHANGED <<op, caps, gac, gci, sbc, oc, lci, tc, exc, log, nscans, tam, ium>>

\* idx = int(choice); if idx in available: return idx
lci_input_valid ==
    /\ pc = "lci_input"
    /\ \E line \in Inputs : LET choice == strip(line) IN
         /\ choice # <<>>
         /\ IsInt(choice)
         /\ Contains(lci.available, int(choice))
         /\ lci' = [lci EXCEPT !.choice = choice]
         /\ Return(RetInt(int(choice)))
    /\ UNCHANGED <<op, caps, gac, gci, sbc, oc, tc, exc, log, nscans, tam, ium>>

\* else: print(f"Camera {idx} not available. Choose from: {available}"), and prompt again
lci_input_invalid ==
    /\ pc = "lci_input"
    /\ \E line \in Inputs : LET choice == strip(line) IN
         /\ choice # <<>>
         /\ IsInt(choice)
         /\ ~Contains(lci.available, int(choice))
         /\ lci' = [lci EXCEPT !.choice = choice]
    /\ pc' = "lci_input"
    /\ UNCHANGED <<stack, op, caps, gac, gci, sbc, oc, tc, ret, exc, log, nscans, tam, ium>>

\* except ValueError: print("Invalid input. Enter a number."), and prompt again
lci_input_value_error ==
    /\ pc = "lci_input"
    /\ \E line \in Inputs : LET choice == strip(line) IN
         /\ choice # <<>>
         /\ ~IsInt(choice)
         /\ lci' = [lci EXCEPT !.choice = choice]
    /\ pc' = "lci_input"
    /\ UNCHANGED <<stack, op, caps, gac, gci, sbc, oc, tc, ret, exc, log, nscans, tam, ium>>

\* Variant of lci_input_cancel: the handler falls back to auto-selection instead of re-raising.
lci_input_cancel_fallback ==
    /\ pc = "lci_input"
    /\ lci' = [lci EXCEPT !.cancelled = TRUE]
    /\ CallSbc(TRUE, <<"lci_auto">>)
    /\ UNCHANGED <<op, caps, gac, gci, oc, tc, ret, exc, log, nscans, tam, ium>>

\* The operator interrupts at the prompt.  except KeyboardInterrupt: print("Cancelled"); raise
lci_input_cancel ==
    /\ pc = "lci_input"
    /\ lci' = [lci EXCEPT !.cancelled = TRUE]
    /\ Raise(KeyboardInterrupt)
    /\ UNCHANGED <<op, caps, gac, gci, sbc, oc, tc, ret, log, nscans, tam, ium>>

\* The operator interrupts after the empty answer, while select_best_camera runs inside
\* the same try block: the interpreter raises KeyboardInterrupt between two statements,
\* the handler prints and re-raises, and no statement of the frames being unwound runs.
lci_auto_cancel ==
    /\ op = "list_cameras_interactive"
    /\ lci.choice = <<>>
    /\ pc \in {"sbc_start", "gac_for", "gac_read", "gac_release", "sbc_got", "lci_auto"}
    /\ lci' = [lci EXCEPT !.cancelled = TRUE]
    /\ Raise(KeyboardInterrupt)
    /\ UNCHANGED <<op, caps, gac, gci, sbc, oc, tc, ret, log, nscans, tam, ium>>

\* The operator interrupts before the first prompt, during the first scan or the listing
\* (outside the try block): KeyboardInterrupt unwinds uncaught, "Cancelled" is not
\* printed, and no statement of the frames being unwound runs.  A read that does not
\* return gives the interpreter no point at which to raise.
lci_interrupt ==
    /\ op = "list_cameras_interactive"
    /\ lci.choice = Unset
    /\ pc \in {"lci_start", "gac_for", "gac_read", "gac_release", "lci_got",
              "lci_for", "gci_open", "gci_get", "lci_print"}
    /\ lci' = [lci EXCEPT !.cancelled = TRUE]
    /\ Raise(KeyboardInterrupt)
    /\ UNCHANGED <<op, caps, gac, gci, sbc, oc, tc, ret, log, nscans, tam, ium>>

----------------------------------------------------------------------------
\* main of test_all_cameras.py

\* for i in range(6): if test_camera(i):
tam_for ==
    /\ pc = "tam_for"
    /\ tam.i < TestRange
    /\ CallTc(tam.i, <<"tam_if">>)
    /\ UNCHANGED <<op, caps, gac, gci, sbc, oc, lci, ret, exc, log, nscans, tam, ium>>

\* available_cameras.append(i), then the next i
tam_if ==
    /\ pc = "tam_if"
    /\ tam' = [tam EXCEPT !.available_cameras = IF ret.val THEN Append(@, tam.i) ELSE @,
                          !.i = @ + 1]
    /\ pc' = "tam_for"
    /\ UNCHANGED <<stack, op, caps, gac, gci, sbc, oc, lci, tc, ret, exc, log, nscans, ium>>

\* if len(available_cameras) > 0: for idx in available_cameras: ...
tam_summary ==
    /\ pc = "tam_for"
    /\ tam.i >= TestRange
    /\ Len(tam.available_cameras) > 0
    /\ tam' = [tam EXCEPT !.k = 1]
    /\ pc' = "tam_preview"
    /\ UNCHANGED <<stack, op, caps, gac, gci, sbc, oc, lci, tc, ret, exc, log, nscans, ium>>

\* else: print("No working cameras found!")
tam_none ==
    /\ pc = "tam_for"
    /\ tam.i >= TestRange
    /\ Len(tam.available_cameras) = 0
    /\ Return(RetNone)
    /\ UNCHANGED <<op, caps, gac, gci, sbc, oc, lci, tc, exc, log, nscans, tam, ium>>

\* cap = cv2.VideoCapture(idx); if cap.isOpened(): ... (not opened: next idx)
tam_open ==
    /\ pc = "tam_preview"
    /\ tam.k <= Len(tam.available_cameras)
    /\ \E ok \in BOOLEAN :
         LET cap == VideoCapture(tam.available_cameras[tam.k], ok) IN
         /\ caps' = [caps EXCEPT !["tam"] = cap]
         /\ IF isOpened(cap)
               THEN pc' = "tam_show" /\ UNCHANGED tam
               ELSE pc' = "tam_preview" /\ tam' = [tam EXCEPT !.k = @ + 1]
    /\ UNCHANGED <<stack, op, gac, gci, sbc, oc, lci, tc, ret, exc, log, nscans, ium>>

\* while True: ret, frame = cap.read(); if ret: ...; key = cv2.waitKey(1) & 0xFF;
\* if key != 255: break   else: break
tam_show ==
    /\ pc = "tam_show"
    /\ \E r \in BOOLEAN, key \in KeysAfter(caps["tam"].reads + 1) :
         /\ caps' = [caps EXCEPT !["tam"] = read(@)]
         /\ tam' = [tam EXCEPT !.key = IF r THEN key ELSE @]
         /\ pc' = IF r /\ key = "none" THEN "tam_show" ELSE "tam_release"
    /\ UNCHANGED <<stack, op, gac, gci, sbc, oc, lci, tc, ret, exc, log, nscans, ium>>

\* cap.release(); cv2.destroyAllWindows(); if key == ord('q'): break
tam_release ==
    /\ pc = "tam_release"
    /\ caps' = [caps EXCEPT !["tam"] = release(@)]
    /\ IF tam.key = "unbound"
          THEN Raise(UnboundLocalError) /\ UNCHANGED <<tam, ret>>
          ELSE IF tam.key = "q"
                  THEN Return(RetNone) /\ UNCHANGED <<tam, exc>>
                  ELSE /\ pc' = "tam_preview"
                       /\ tam' = [tam EXCEPT !.k = @ + 1]
                       /\ UNCHANGED <<stack, ret, exc>>
    /\ UNCHANGED <<op, gac, gci, sbc, oc, lci, tc, log, nscans, ium>>

\* the for loop over available_cameras is exhausted
tam_end ==
    /\ pc = "tam_preview"
    /\ tam.k > Len(tam.available_cameras)
    /\ Return(RetNone)
    /\ UNCHANGED <<op, caps, gac, gci, sbc, oc, lci, tc, exc, log, nscans, tam, ium>>

----------------------------------------------------------------------------
\* main of identify_usb_camera.py

\* cap0 = cv2.VideoCapture(0)
ium_open0 ==
    /\ pc = "ium_open0"
    /\ \E ok \in BOOLEAN : caps' = [caps EXCEPT !["cap0"] = VideoCapture(Cam0, ok)]
    /\ pc' = "ium_open1"
    /\ UNCHANGED <<stack, op, gac, gci, sbc, oc, lci, tc, ret, exc, log, nscans, tam, ium>>

\* cap1 = cv2.VideoCapture(2)
ium_open1 ==
    /\ pc = "ium_open1"
    /\ \E ok \in BOOLEAN : caps' = [caps EXCEPT !["cap1"] = VideoCapture(Cam1, ok)]
    /\ pc' = "ium_check"
    /\ UNCHANGED <<stack, op, gac, gci, sbc, oc, lci, tc, ret, exc, log, nscans, tam, ium>>

\* if not cap0.isOpened(): print("Camera 0 not available"); return
\* No release() is called.  The return drops main's locals, and when the two objects
\* are finalized is the runtime's choice: at once, before the caller has control
\* (reference counting, as in CPython; the destructor ends the handle), or at some
\* later collection, in which case cap1 outlives the return as it is.
ium_no_cap0 ==
    /\ pc = "ium_check"
    /\ ~isOpened(caps["cap0"])
    /\ \E finalized \in BOOLEAN :
          caps' = IF finalized
                     THEN [caps EXCEPT !["cap0"] = NoCap, !["cap1"] = NoCap]
                     ELSE caps
    /\ Return(RetNone)
    /\ UNCHANGED <<op, gac, gci, sbc, oc, lci, tc, exc, log, nscans, tam, ium>>

\* if not cap1.isOpened(): print("Camera 1 not available"); cap0.release(); return
ium_no_cap1 ==
    /\ pc = "ium_check"
    /\ isOpened(caps["cap0"])
    /\ ~isOpened(caps["cap1"])
    /\ caps' = [caps EXCEPT !["cap0"] = release(@)]
    /\ Return(RetNone)
    /\ UNCHANGED <<op, gac, gci, sbc, oc, lci, tc, exc, log, nscans, tam, ium>>

\* print("Both cameras opened successfully")
ium_both ==
    /\ pc = "ium_check"
    /\ isOpened(caps["cap0"])
    /\ isOpened(caps["cap1"])
    /\ pc' = "ium_loop"
    /\ UNCHANGED <<stack, op, caps, gac, gci, sbc, oc, lci, tc, ret, exc, log, nscans, tam, ium>>

\* while True: ret0, frame0 = cap0.read(); ret1, frame1 = cap1.read();
\* if not ret0 or not ret1: break; ...; if key == ord('q'): break
ium_loop ==
    /\ pc = "ium_loop"
    /\ \E r0 \in BOOLEAN, r1 \in BOOLEAN, key \in KeysAfter(caps["cap0"].reads + 1) \ {"other"} :
         /\ caps' = [caps EXCEPT !["cap0"] = read(@), !["cap1"] = read(@)]
         /\ ium' = [ium EXCEPT !.ret0 = r0, !.ret1 = r1]
         /\ pc' = IF ~r0 \/ ~r1 \/ key = "q" THEN "ium_release" ELSE "ium_loop"
    /\ UNCHANGED <<stack, op, gac, gci, sbc, oc, lci, tc, ret, exc, log, nscans, tam>>

\* cap0.release(); cap1.release(); cv2.destroyAllWindows()
ium_release ==
    /\ pc = "ium_release"
    /\ caps' = [caps EXCEPT !["cap0"] = release(@), !["cap1"] = release(@)]
    /\ pc' = "ium_input"
    /\ UNCHANGED <<stack, op, gac, gci, sbc, oc, lci, tc, ret, exc, log, nscans, tam, ium>>

\* choice = input("Enter 0 or 1: ").strip(); if choice in ['0', '1']: return choice  else: return None
ium_input ==
    /\ pc = "ium_input"
    /\ \E line \in Inputs : LET choice == strip(line) IN
         /\ ium' = [ium EXCEPT !.choice = choice]
         /\ IF choice \in {<<48>>, <<49>>}
               THEN Return(RetStr(choice))
               ELSE Return(RetNone)
    /\ UNCHANGED <<op, caps, gac, gci, sbc, oc, lci, tc, exc, log, nscans, tam>>

----------------------------------------------------------------------------
\* The outside caller

\* get_available_cameras(b)
call_get_available_cameras ==
    /\ pc = "idle"
    /\ \E b \in 0..MaxBound : CallGac(b, <<>>)
    /\ op' = "get_available_cameras"
    /\ UNCHANGED <<caps, gci, sbc, oc, lci, tc, ret, exc, tam, ium>>

\* get_camera_info(index)
call_get_camera_info ==
    /\ pc = "idle"
    /\ \E index \in 0..MaxIndex : CallGci(index, <<>>)
    /\ op' = "get_camera_info"
    /\ UNCHANGED <<caps, gac, sbc, oc, lci, tc, ret, exc, log, nscans, tam, ium>>

\* test_camera(index)
call_test_camera ==
    /\ pc = "idle"
    /\ \E index \in 0..MaxIndex : CallTc(index, <<>>)
    /\ op' = "test_camera"
    /\ UNCHANGED <<caps, gac, gci, sbc, oc, lci, ret, exc, log, nscans, tam, ium>>

\* select_best_camera(prefer_external)
call_select_best_camera ==
    /\ pc = "idle"
    /\ \E prefer_external \in BOOLEAN : CallSbc(prefer_external, <<>>)
    /\ op' = "select_best_camera"
    /\ UNCHANGED <<caps, gac, gci, oc, lci, tc, ret, exc, log, nscans, tam, ium>>

\* open_camera(camera_index, prefer_external)
call_open_camera ==
    /\ pc = "idle"
    /\ \E camera_index \in {None} \cup 0..MaxIndex, prefer_external \in BOOLEAN :
         oc' = [camera_index |-> camera_index, prefer_external |-> prefer_external,
                arg |-> camera_index, attempt |-> "none", scansAtOpen |-> None]
    /\ pc' = "oc_start"
    /\ op' = "open_camera"
    /\ UNCHANGED <<stack, caps, gac, gci, sbc, lci, tc, ret, exc, log, nscans, tam, ium>>

\* list_cameras_interactive()
call_list_cameras_interactive ==
    /\ pc = "idle"
    /\ pc' = "lci_start"
    /\ op' = "list_cameras_interactive"
    /\ UNCHANGED <<stack, caps, gac, gci, sbc, oc, lci, tc, ret, exc, log, nscans, tam, ium>>

\* main() of test_all_cameras.py
call_test_all_cameras_main ==
    /\ pc = "idle"
    /\ pc' = "tam_for"
    /\ op' = "test_all_cameras.main"
    /\ UNCHANGED <<stack, caps, gac, gci, sbc, oc, lci, tc, ret, exc, log, nscans, tam, ium>>

\* main() of identify_usb_camera.py
call_identify_usb_camera_main ==
    /\ pc = "idle"
    /\ pc' = "ium_open0"
    /\ op' = "identify_usb_camera.main"
    /\ UNCHANGED <<stack, caps, gac, gci, sbc, oc, lci, tc, ret, exc, log, nscans, tam, ium>>

\* The caller is done with the result; every object of the invocation is dropped.
finish ==
    /\ pc = "done"
    /\ pc' = "idle"
    /\ stack' = <<>>
    /\ op' = "none"
    /\ caps' = [s \in Slots |-> NoCap]
    /\ gac' = InitGac
    /\ gci' = InitGci
    /\ sbc' = InitSbc
    /\ oc' = InitOc
    /\ lci' = InitLci
    /\ tc' = InitTc
    /\ ret' = RetNone
    /\ exc' = NoExc
    /\ log' = <<>>
    /\ nscans' = 0
    /\ tam' = InitTam
    /\ ium' = InitIum

Next ==
    \/ gac_for \/ gac_read \/ gac_read_blocks \/ gac_release \/ gac_return
    \/ gci_open \/ gci_get
    \/ tc_open \/ tc_read \/ tc_read_blocks \/ tc_release
    \/ sbc_start \/ sbc_raise \/ sbc_return
    \/ oc_start \/ oc_selected \/ oc_open \/ oc_failed \/ oc_raise \/ oc_info \/ oc_return
    \/ lci_start \/ lci_raise \/ lci_list \/ lci_for \/ lci_print \/ lci_only \/ lci_while
    \/ lci_input_auto \/ lci_auto \/ lci_input_valid \/ lci_input_invalid
    \/ lci_input_value_error \/ lci_input_cancel \/ lci_auto_cancel
    \/ call_get_available_cameras \/ call_get_camera_info \/ call_test_camera
    \/ call_select_best_camera \/ call_open_camera \/ call_list_cameras_interactive
    \/ tam_for \/ tam_if \/ tam_summary \/ tam_none \/ tam_open \/ tam_show \/ tam_release \/ tam_end
    \/ ium_open0 \/ ium_open1 \/ ium_no_cap0 \/ ium_no_cap1 \/ ium_both \/ ium_loop \/ ium_release
    \/ ium_input
    \/ lci_interrupt
    \/ call_test_all_cameras_main \/ call_identify_usb_camera_main
    \/ finish

Spec == Init /\ [][Next]_vars

----------------------------------------------------------------------------
\* Properties

Range(s) == {s[k] : k \in 1..Len(s)}
SeqMax(s) == CHOOSE x \in Range(s) : \A y \in Range(s) : y <= x
SeqMin(s) == CHOOSE x \in Range(s) : \A y \in Range(s) : x <= y
StrictlyAscending(s) == \A k \in 1..(Len(s) - 1) : s[k] < s[k + 1]

\* The indices the last enumeration saw open and deliver a frame, in probe order.
WorkingOf(l) ==
    LET w == SelectSeq(l, LAMBDA e : e.result = "Working") IN [k \in 1..Len(w) |-> w[k].index]

\* get_available_cameras has just returned (only it returns a list).
GacReturned == ret.kind = "list"

\* select_best_camera has just returned an index to its caller.
SbcReturned ==
    \/ pc \in {"oc_selected", "lci_auto"}
    \/ pc = "done" /\ op = "select_best_camera" /\ exc = NoExc

\* open_camera has returned or raised.
OcDone == pc = "done" /\ op = "open_camera"

\* C1: the list get_available_cameras(b) returns is strictly ascending (so without
\* duplicates), every entry lies in 0..b-1, and it has at most b entries.
C1_ListAscendingInRange ==
    GacReturned =>
        /\ StrictlyAscending(ret.val)
        /\ \A k \in 1..Len(ret.val) : ret.val[k] \in 0..(gac.max_test - 1)
        /\ Len(ret.val) <= gac.max_test
        /\ Cardinality(Range(ret.val)) = Len(ret.val)

C1_Witness ==
    /\ pc = "done" /\ op = "get_available_cameras"
    /\ gac.max_test = 5
    /\ ret.kind = "list" /\ ret.val = <<0, 2, 4>>

\* C2: get_available_cameras(b) probes each of 0..b-1 and returns exactly the indices
\* that opened and delivered their first frame in this scan; an index that did not
\* open, or opened and failed the read, is not in the result.
C2_ExactlyTheWorking ==
    GacReturned =>
        /\ Len(log) = gac.max_test
        /\ \A k \in 1..Len(log) : log[k].index = k - 1
        /\ ret.val = WorkingOf(log)
        /\ \A k \in 1..Len(log) :
              Contains(ret.val, log[k].index) <=> log[k].result = "Working"

C2_Witness ==
    /\ pc = "done" /\ op = "get_available_cameras"
    /\ gac.max_test = 5
    /\ ret.kind = "list" /\ ret.val = <<0, 2>>
    /\ log[2].result = "OpensButNoFrame"
    /\ log[4].result = "Unavailable"

C2_WitnessEmpty ==
    /\ pc = "done" /\ op = "get_available_cameras" /\ gac.max_test = 5
    /\ ret.kind = "list" /\ ret.val = <<>> /\ exc = NoExc

\* C3: over a non-empty enumerated list, select_best_camera(prefer_external=True)
\* returns its largest index and select_best_camera(prefer_external=False) its
\* smallest; with one entry both return that entry.
C3_LargestOrSmallest ==
    SbcReturned =>
        /\ ret.kind = "int"
        /\ sbc.available # <<>>
        /\ sbc.available = WorkingOf(log)
        /\ ret.val = IF sbc.prefer_external THEN SeqMax(sbc.available) ELSE SeqMin(sbc.available)
        /\ Len(sbc.available) = 1 => ret.val = sbc.available[1]

C3_Witness ==
    /\ pc = "done" /\ op = "select_best_camera" /\ exc = NoExc
    /\ sbc.prefer_external
    /\ sbc.available = <<0, 2>>
    /\ ret = RetInt(2)

\* C4: list_cameras_interactive, given empty input over the presented list L (more
\* than one entry), returns the largest index of L, whatever the devices did in between.
C4_EmptyInputSelectsFromPresentedList ==
    ( /\ pc = "done" /\ op = "list_cameras_interactive"
      /\ lci.choice = <<>> /\ Len(lci.available) > 1 /\ ~lci.cancelled )
    => ( exc = NoExc /\ ret = RetInt(SeqMax(lci.available)) )

\* C5: no device index is held by two open capture objects of the subsystem at once.
C5_AtMostOneHandlePerIndex ==
    \A i \in 0..MaxIndex : Held(i) <= 1

\* C6: a probe releases the device it opened before it returns: outside the bodies of
\* get_available_cameras, get_camera_info and test_camera their capture object is not open
\* (a probe the operator's interrupt cut short has not returned).
C6_ProbeReleasesBeforeReturn ==
    /\ (pc \notin {"gac_read", "gac_release", "gac_blocked"} /\ ~lci.cancelled) => ~caps["gac"].opened
    /\ (pc # "gci_get" /\ ~lci.cancelled) => ~caps["gci"].opened
    /\ pc \notin {"tc_read", "tc_release", "tc_blocked"} => ~caps["tc"].opened

C6_Witness ==
    /\ pc = "done" /\ op = "get_available_cameras"
    /\ \E k \in 1..Len(log) : log[k].result = "OpensButNoFrame"
    /\ \E k \in 1..Len(log) : log[k].result = "Working"
    /\ caps["gac"].index = gac.max_test - 1 /\ caps["gac"].reads = 1
    /\ \A s \in Slots : ~caps[s].opened

\* C7: open_camera returns a handle exactly when its open attempt reported opened, and
\* raises the open-failure error exactly when it did not; the returned handle is open
\* and no frame was read from it.
C7_OpenedIsTheOnlyCriterion ==
    OcDone =>
        /\ ret.kind = "cap" =>
              /\ oc.attempt = "opened"
              /\ caps[ret.val].reads = 0
              /\ caps[ret.val].opened
        /\ oc.attempt = "opened" => ret.kind = "cap" /\ exc = NoExc
        /\ oc.attempt = "failed" =>
              ret.kind # "cap" /\ exc.type = "RuntimeError" /\ exc.msg = "Failed to open camera"

C7_Witness ==
    /\ OcDone /\ ret.kind = "cap"
    /\ oc.arg = 1 /\ nscans = 0
    /\ caps["oc"].opened /\ caps["oc"].reads = 0

\* C8: the error open_camera raises for a failed open names the attempted index, and its
\* list is the result of an enumeration started after that open attempt.
C8_ErrorCarriesFreshScan ==
    (pc = "done" /\ exc.msg = "Failed to open camera") =>
        /\ op = "open_camera" /\ oc.attempt = "failed"
        /\ exc.index = oc.camera_index
        /\ caps["oc"].index = exc.index
        /\ nscans = oc.scansAtOpen + 1
        /\ Len(log) = DefaultMaxTest
        /\ exc.available = WorkingOf(log)

C8_Witness ==
    /\ pc = "done" /\ op = "open_camera" /\ exc.msg = "Failed to open camera"
    /\ oc.arg = None
    /\ sbc.available = <<0, 2>>
    /\ exc.index = 2
    /\ exc.available = <<0, 3>>

\* C9: with an explicit index i, open_camera tries exactly i and no enumeration precedes
\* the attempt; when i opens the returned handle is bound to i.
C9_ExplicitIndexBypassesEnumerator ==
    (op = "open_camera" /\ oc.arg # None) =>
        /\ oc.camera_index = oc.arg
        /\ pc \in {"oc_start", "oc_open"} => nscans = 0
        /\ oc.attempt # "none" => oc.scansAtOpen = 0 /\ caps["oc"].index = oc.arg
        /\ (pc = "done" /\ oc.attempt = "opened") =>
              ret = RetCap("oc") /\ caps["oc"].index = oc.arg /\ nscans = 0

C9_Witness ==
    /\ OcDone /\ ret.kind = "cap"
    /\ oc.arg >= DefaultMaxTest
    /\ caps["oc"].index = oc.arg /\ caps["oc"].opened
    /\ nscans = 0

\* C10 as stated: an explicit index outside every enumerated list ends in RequestedDeviceNotFound.
C10_ExplicitNotListedFails ==
    (OcDone /\ oc.arg # None /\ oc.arg >= DefaultMaxTest) =>
        exc.type = "RequestedDeviceNotFound"

\* C10, amended: an explicit index i is never refused for not being listed; open_camera
\* ends either with a handle bound to i (the open reported opened) or with the
\* open-failure RuntimeError naming i and carrying the list of a scan made afterwards.
C10_ExplicitNeverRefused ==
    (OcDone /\ oc.arg # None) =>
        /\ exc.type # "RequestedDeviceNotFound"
        /\ \/ /\ exc = NoExc /\ ret = RetCap("oc")
              /\ caps["oc"].index = oc.arg /\ oc.attempt = "opened"
           \/ /\ exc = FailedToOpenError(oc.arg, WorkingOf(log))
              /\ oc.attempt = "failed"

C10_Witness ==
    /\ OcDone /\ oc.arg = 3
    /\ exc.msg = "Failed to open camera" /\ exc.index = 3
    /\ exc.available = <<0, 2>>

\* Number of capture objects open at the moment, on any index.
OpenHandles == Cardinality({s \in Slots : caps[s].opened})

\* The probes made so far by a scan over 0..n-1: one per index, in ascending order.
ScanOrdered(l, n) == Len(l) <= n /\ \A k \in 1..Len(l) : l[k].index = k - 1

LciDone == pc = "done" /\ op = "list_cameras_interactive"

\* C11: the prompt loop over the presented list L ends only with the operator's
\* cancellation or with an index that is a member of L.
C11_LoopEndsWithMemberOrCancel ==
    (LciDone /\ Len(lci.available) > 1) =>
        \/ exc = KeyboardInterrupt
        \/ exc = NoExc /\ ret.kind = "int" /\ Contains(lci.available, ret.val)

\* C12: once the operator's interrupt arrives, list_cameras_interactive has ended with
\* KeyboardInterrupt raised to its caller: no prompt follows, no value is returned, and
\* an interrupt that does not follow an empty answer (at a prompt, or before the first
\* one) starts no auto-selection scan: only the scan for the listing has run, if any.
C12_CancellationPropagates ==
    lci.cancelled =>
        /\ pc = "done" /\ stack = <<>>
        /\ op = "list_cameras_interactive"
        /\ exc = KeyboardInterrupt
        /\ lci.choice # <<>> => nscans <= 1 /\ ret.kind # "int"

C12_Witness ==
    /\ lci.cancelled /\ pc = "done"
    /\ lci.available = <<0, 2>>
    /\ lci.choice = <<120>>
    /\ nscans = 1

\* C13: when the enumeration finds nothing, select_best_camera raises its no-cameras
\* error, list_cameras_interactive (not interrupted by the operator) raises its own
\* without prompting, and open_camera without an explicit index raises the same error
\* without creating its capture object.
C13_NoDevicesFails ==
    /\ (pc = "done" /\ op = "select_best_camera" /\ WorkingOf(log) = <<>>) =>
          exc = NoCamerasError
    /\ (LciDone /\ nscans = 1 /\ WorkingOf(log) = <<>> /\ ~lci.cancelled) =>
          exc = NoCamerasInteractiveError /\ lci.choice = Unset
    /\ pc = "lci_input" => lci.available # <<>>
    /\ (OcDone /\ oc.arg = None /\ nscans = 1 /\ WorkingOf(log) = <<>>) =>
          exc = NoCamerasError /\ oc.attempt = "none" /\ caps["oc"] = NoCap

C13_Witness ==
    /\ OcDone /\ oc.arg = None /\ ~oc.prefer_external
    /\ exc = NoCamerasError
    /\ Len(log) = DefaultMaxTest /\ log[1].result = "OpensButNoFrame"
    /\ caps["oc"] = NoCap

\* C15: a probe whose frame read never returns still goes on: from a read that does not
\* return, the scan has a next step.
C15_BlockedReadStillReturns ==
    pc \in {"gac_blocked", "tc_blocked"} => ENABLED Next

\* C16 as stated: characteristics are reported only for a device whose first-frame
\* read succeeded.
C16_CharacteristicsOnlyAfterRead ==
    ret.kind = "tuple" => caps["gci"].reads >= 1

\* C16, amended: test_camera classifies its index in exactly one of three ways by the
\* line it prints (not available when the open fails, opened-but-no-frames when its one
\* read fails, working when it succeeds) and returns True only for working;
\* get_camera_info reads no frame, reports (width, height, backend) for every device
\* that opens and None for one that does not.
C16_ProbeClassification ==
    /\ (pc = "done" /\ op = "test_camera") =>
          /\ caps["tc"].reads <= 1
          /\ Len(log) = 1 /\ log[1].index = tc.index
          /\ tc.printed = "Not available" <=> caps["tc"].reads = 0
          /\ tc.printed = "Opened but can't read frames" <=> (caps["tc"].reads = 1 /\ ~tc.result)
          /\ tc.printed = "Working" <=> (caps["tc"].reads = 1 /\ tc.result)
          /\ log[1].result = "Unavailable" <=> tc.printed = "Not available"
          /\ log[1].result = "OpensButNoFrame" <=> tc.printed = "Opened but can't read frames"
          /\ log[1].result = "Working" <=> tc.printed = "Working"
          /\ ret = RetBool(tc.printed = "Working")
    /\ (pc = "done" /\ op = "get_camera_info") =>
          /\ caps["gci"].reads = 0
          /\ gci.opened <=> (ret.kind = "tuple" /\ ret.val \in Infos)
          /\ ~gci.opened <=> ret = RetNone

C16_Witness ==
    /\ pc = "done" /\ op = "get_camera_info"
    /\ gci.opened /\ ret.kind = "tuple"
    /\ caps["gci"].reads = 0

\* C17: no capture object is open while the operator is prompted, and none is open once
\* a cancellation has left list_cameras_interactive.
C17_NothingOpenAtPromptOrCancel ==
    /\ pc = "lci_input" => OpenHandles = 0
    /\ (LciDone /\ lci.cancelled) => OpenHandles = 0

\* C18: a scan probes 0..b-1 once each in ascending order, one at a time: while index i
\* is probed it is the only open capture object, and it is released before i+1 is opened.
C18_ScanOneAtATime ==
    /\ pc \in {"gac_for", "gac_read", "gac_blocked", "gac_release"} =>
          /\ ScanOrdered(log, gac.max_test)
          /\ OpenHandles <= 1
          /\ pc = "gac_for" => Len(log) = gac.i /\ OpenHandles = 0
          /\ pc \in {"gac_read", "gac_blocked"} =>
                Len(log) = gac.i /\ caps["gac"].opened /\ caps["gac"].index = gac.i
          /\ pc = "gac_release" => Len(log) = gac.i + 1
    /\ GacReturned => Len(log) = gac.max_test /\ ScanOrdered(log, gac.max_test)
    /\ (op = "test_all_cameras.main"
        /\ pc \in {"tam_for", "tam_if", "tc_open", "tc_read", "tc_blocked", "tc_release"}) =>
          /\ ScanOrdered(log, TestRange)
          /\ OpenHandles <= 1
          /\ pc \in {"tam_for", "tc_open"} => Len(log) = tam.i /\ OpenHandles = 0
          /\ pc \in {"tc_read", "tc_blocked"} =>
                Len(log) = tam.i /\ caps["tc"].opened /\ caps["tc"].index = tam.i
          /\ pc = "tam_if" => Len(log) = tam.i + 1 /\ OpenHandles = 0
    /\ pc \in {"tam_preview", "tam_show", "tam_release"} =>
          Len(log) = TestRange /\ ScanOrdered(log, TestRange)

C18_Witness ==
    /\ pc = "gac_read" /\ gac.i = 3 /\ gac.max_test = 5
    /\ Len(log) = 3 /\ log[1].result = "Working" /\ log[3].result = "OpensButNoFrame"
    /\ caps["gac"].opened /\ caps["gac"].index = 3
    /\ OpenHandles = 1

\* C19 as stated: with exactly one camera enumerated, list_cameras_interactive never
\* prompts: no input is read, no interrupt is taken, no second scan runs, and it returns
\* that camera.
C19_SingleCameraNoPrompt ==
    (op = "list_cameras_interactive" /\ Len(lci.available) = 1) =>
        /\ pc # "lci_input"
        /\ lci.choice = Unset /\ ~lci.cancelled
        /\ nscans = 1
        /\ pc = "done" => exc = NoExc /\ ret = RetInt(lci.available[1])

\* C19, amended: with exactly one camera enumerated, list_cameras_interactive never
\* prompts, reads no input and runs no second scan; it returns that camera unless the
\* operator's interrupt arrives while the camera is being listed, which ends the call
\* with KeyboardInterrupt and no value.
C19_SingleCameraNoInput ==
    (op = "list_cameras_interactive" /\ Len(lci.available) = 1) =>
        /\ pc # "lci_input"
        /\ lci.choice = Unset
        /\ nscans = 1
        /\ (pc = "done" /\ ~lci.cancelled) => exc = NoExc /\ ret = RetInt(lci.available[1])
        /\ (pc = "done" /\ lci.cancelled) => exc = KeyboardInterrupt /\ ret.kind # "int"

C19_Witness ==
    /\ LciDone /\ lci.available = <<3>>
    /\ exc = NoExc /\ ret = RetInt(3)
    /\ lci.choice = Unset

\* C20: when main of identify_usb_camera.py has returned, neither capture object it
\* created is open.
C20_BothHandlesReleased ==
    (pc = "done" /\ op = "identify_usb_camera.main") =>
        ~caps["cap0"].opened /\ ~caps["cap1"].opened

====
